---- MODULE Spec2Model ----
(***************************************************************************)
(* Adaptive budget (adaptive-budget.py) and rotation tuner                 *)
(* (rotation-tuner.py) of moltbook-mcp.                                    *)
(*                                                                         *)
(* Money is counted in cents.  The session log and rotation.conf are the   *)
(* only shared state; both are files that may be absent.                   *)
(*                                                                         *)
(* The scripts compute in binary floating point.  The comparisons of the   *)
(* model are the same comparisons on exact quotients, cross-multiplied;    *)
(* the costs the model logs (1.00, 2.50, 3.00, 5.00 and 6.00) are exact in *)
(* floating point and every quotient that equals a threshold is computed   *)
(* as the threshold, so both agree.                                        *)
(* round(x, n) rounds the double nearest to x: where x lies halfway        *)
(* between two results and is not a double itself, RoundDiv takes the side *)
(* on which that double lies.                                              *)
(*                                                                         *)
(* A line of session-history.txt is a record                               *)
(*   [shape, mode, cost, build]                                            *)
(* shape = "session": the line matches the regular expression of           *)
(*   parse_sessions; cost is the number after cost=$ in cents, build is    *)
(*   the number after build= or NoneBuild for the sentinel "(none)".       *)
(* shape = "junk": the line does not match.                                *)
(* shape = "badcost": the line matches, and the characters after cost=$    *)
(*   (digits and dots, such as 1.2.3) are not a number.                    *)
(*                                                                         *)
(* rotation.conf is a sequence of tokens: "PATTERN=", the word characters  *)
(* "B" "R" "E", the line terminator "\n", and comment texts.               *)
(***************************************************************************)
EXTENDS Integers, Sequences, FiniteSets, TLC

VARIABLES historyExists, history,   \* session-history.txt
          confExists, conf,         \* rotation.conf
          bpc, bOut,                \* an invocation of adaptive-budget.py
          pc, doApply, analysis, rec, lines, writes,
                                    \* the invocations of rotation-tuner.py
          eIn, eOut, epc            \* a call of compute_enrichment

budgetVars == <<bpc, bOut>>
logVars == <<historyExists, history>>
confVars == <<confExists, conf>>
rotVars == <<pc, doApply, analysis, rec, lines, writes>>
enrichVars == <<eIn, eOut, epc>>
vars == <<historyExists, history, confExists, conf, bpc, bOut,
          pc, doApply, analysis, rec, lines, writes, eIn, eOut, epc>>

Modes == {"B", "R", "E"}

\* ------------------------------------------------------------------ bounds
MaxHist == 11
MaxRuns == 2

\* ------------------------------------------------------- program constants
BASE == [B |-> 1000, R |-> 500, E |-> 500]
CAPS == [B |-> [lo |-> 500, hi |-> 1200],
         R |-> [lo |-> 300, hi |-> 700],
         E |-> [lo |-> 200, hi |-> 500]]
\* a threshold one too low
MinSamples_two == 3 - 1
MinSamples == 3
WindowSize == 10
NoneBuild == -1

\* ------------------------------------------------------------ session log
SessionLine(m, c, b) == [shape |-> "session", mode |-> m, cost |-> c, build |-> b]
JunkLine == [shape |-> "junk", mode |-> "B", cost |-> 0, build |-> 0]
BadCostLine == [shape |-> "badcost", mode |-> "B", cost |-> 0, build |-> 1]

\* the lines the session runner is seen to append
LogLines ==
  {SessionLine(m, 100, 2) : m \in Modes} \cup
  {SessionLine(m, 600, NoneBuild) : m \in Modes} \cup
  {SessionLine(m, 600, 12) : m \in Modes} \cup
  {JunkLine}

RECURSIVE Runs(_)
Runs(s) ==
  IF Len(s) <= 1 THEN Len(s)
  ELSE Runs(Tail(s)) + (IF s[1] = s[2] THEN 0 ELSE 1)

\* build=(\d+|(none)) : "(none)" counts as 0 commits
Commits(b) == IF b = NoneBuild THEN 0 ELSE b

ParseLine(l) == [mode |-> l.mode, cost |-> l.cost, commits |-> Commits(l.build)]

RECURSIVE ParseLines(_)
ParseLines(ls) ==
  IF ls = <<>> THEN <<>>
  ELSE IF ls[1].shape = "session"
       THEN <<ParseLine(ls[1])>> \o ParseLines(Tail(ls))
       ELSE ParseLines(Tail(ls))

\* float(m.group(5)) raises ValueError on a matching line whose cost is not a
\* number; nothing catches it, so parse_sessions returns no list
ParseRaises(ls) == \E k \in 1..Len(ls) : ls[k].shape = "badcost"

\* adaptive-budget.py parse_sessions: an absent log is an empty history
ab_parse_sessions == IF historyExists THEN ParseLines(history) ELSE <<>>

\* ------------------------------------------------------------ arithmetic
RECURSIVE SumCost(_)
SumCost(s) == IF s = <<>> THEN 0 ELSE s[1].cost + SumCost(Tail(s))

RECURSIVE SumCommits(_)
SumCommits(s) == IF s = <<>> THEN 0 ELSE s[1].commits + SumCommits(Tail(s))

Max(a, b) == IF a >= b THEN a ELSE b
Min(a, b) == IF a <= b THEN a ELSE b

\* typed = [s for s in sessions if s["mode"] == mode]
Typed(mode, sessions) == SelectSeq(sessions, LAMBDA s : s.mode = mode)

\* no window: every record of the mode
LastN_all(s, n) == s

\* typed[-10:]
LastN(s, n) == SubSeq(s, Max(1, Len(s) - n + 1), Len(s))

\* round(x, 2) of an amount x given in 1/100 cent; the result is in cents
Round2(x) ==
  LET q == x \div 100
      r == x % 100
  IN  IF r > 50 THEN q + 1
      ELSE IF r < 50 THEN q
      ELSE IF q % 2 = 0 THEN q ELSE q + 1

RECURSIVE OddPart(_)
OddPart(n) == IF n % 2 = 0 THEN OddPart(n \div 2) ELSE n

RECURSIVE BitLen(_)
BitLen(n) == IF n = 0 THEN 0 ELSE 1 + BitLen(n \div 2)

\* the number of 0 bits before the first 1 in the binary expansion of
\* r / q, 0 < r < q
RECURSIVE LeadZeros(_, _)
LeadZeros(r, q) == IF 2 * r >= q THEN 0 ELSE 1 + LeadZeros(2 * r, q)

\* the remainder after k more bits of the binary expansion of r / q
RECURSIVE Advance(_, _, _)
Advance(r, q, k) ==
  IF k = 0 THEN r
  ELSE IF k >= 13 THEN Advance((r * 8192) % q, q, k - 13)
  ELSE Advance((2 * r) % q, q, k - 1)

\* the double nearest to p / q lies below p / q, for a quotient that no
\* double equals: the bit after the 53 bits of the double is 0
DoubleBelow(p, q) ==
  LET ip == p \div q
      r == p % q
      skip == IF ip > 0 THEN 53 - BitLen(ip) ELSE LeadZeros(r, q) + 53
  IN  2 * Advance(r, q, skip) < q

\* round(x, k) for the double x of the quotient a / (b * unit), unit = 10^k,
\* as a count of the last kept digit.  round() rounds the exact value of
\* the double: a quotient halfway between two counts goes to the even one
\* when a double equals it, and else to the side its double lies on.
RoundDiv(a, b, unit) ==
  LET q == a \div b
      r == a % b
  IN  IF 2 * r > b THEN q + 1
      ELSE IF 2 * r < b THEN q
      ELSE IF (2 * q + 1) % OddPart(2 * unit) = 0
           THEN (IF q % 2 = 0 THEN q ELSE q + 1)
      ELSE IF DoubleBelow(2 * q + 1, 2 * unit) THEN q ELSE q + 1

\* a window without commits reported with a cost per commit of 0
CostPerCommit_zero(totalCost, totalCommits) ==
  IF totalCommits = 0 THEN 0 ELSE RoundDiv(totalCost, totalCommits, 100)

\* cost / max(commits, 1), rounded to the cent
CostPerCommit(totalCost, totalCommits) ==
  RoundDiv(totalCost, Max(totalCommits, 1), 100)

\* base * multiplier, the multiplier in percent; the result is in 1/100 cent
Times(base, pct) == base * pct

\* the clamp without its ceiling
Clamp_noCeiling(mode, budget) == Max(CAPS[mode].lo * 100, budget)

\* min(hi, max(lo, budget)), budget in 1/100 cent
Clamp(mode, budget) == Min(CAPS[mode].hi * 100, Max(CAPS[mode].lo * 100, budget))

\* the tiers with each boundary value in the more generous tier
CommitTier_inclusive(totalCost, totalCommits) ==
  LET d == Max(totalCommits, 1)
  IN  IF totalCost <= 60 * d THEN 130
      ELSE IF totalCost <= 100 * d THEN 115
      ELSE IF totalCost <= 200 * d THEN 100
      ELSE 75

\* the tier of a commit-producing mode, in percent of base
CommitTier(totalCost, totalCommits) ==
  LET d == Max(totalCommits, 1)
  IN  IF totalCost < 60 * d THEN 130
      ELSE IF totalCost < 100 * d THEN 115
      ELSE IF totalCost < 200 * d THEN 100
      ELSE 75

\* no damping
Damp_none(mode, budget, totalCost, n) == budget

\* damping only below a quarter of base
Damp_quarter(mode, budget, totalCost, n) ==
  IF 4 * totalCost < BASE[mode] * n THEN Min(budget, BASE[mode] * 100) ELSE budget

\* the damping rule: avg_cost < base * 0.5 caps the budget at base
Damp(mode, budget, totalCost, n) ==
  IF 2 * totalCost < BASE[mode] * n THEN Min(budget, BASE[mode] * 100) ELSE budget

\* the E branch with the boundary values inside the outer tiers
CostTier_inclusive(mode, totalCost, n) ==
  IF 10 * totalCost <= 6 * BASE[mode] * n THEN 90
  ELSE IF 10 * totalCost >= 9 * BASE[mode] * n THEN 110
  ELSE 100

\* the E branch: judged on average cost alone, in percent of base
CostTier(mode, totalCost, n) ==
  IF 10 * totalCost < 6 * BASE[mode] * n THEN 90
  ELSE IF 10 * totalCost > 9 * BASE[mode] * n THEN 110
  ELSE 100

compute_budget(mode, sessions) ==
  LET typed == Typed(mode, sessions)
      recent == LastN(typed, WindowSize)
      n == Len(recent)
      totalCost == SumCost(recent)
      totalCommits == SumCommits(recent)
      budget == IF mode \in {"B", "R"}
                THEN Damp(mode, Times(BASE[mode], CommitTier(totalCost, totalCommits)),
                          totalCost, n)
                ELSE Times(BASE[mode], CostTier(mode, totalCost, n))
  IN  IF Len(typed) < MinSamples THEN BASE[mode]
      ELSE Round2(Clamp(mode, budget))

\* ------------------------------------------------- adaptive-budget.py main
NoAll == [m \in Modes |-> [budget |-> 0, recent_count |-> 0, avg_cost |-> 0,
                           cost_per_commit |-> 0, total_commits |-> 0]]
NoOut == [mode |-> "-", sessions |-> <<>>, value |-> 0, all |-> NoAll]

\* parse_sessions of adaptive-budget.py raises
BudgetRaises == historyExists /\ ParseRaises(history)

\* main without --json: parse the log, print the budget of one mode
BudgetMain(mode) ==
  /\ bpc = "idle"
  /\ IF BudgetRaises
     THEN /\ bpc' = "raised"
          /\ bOut' = NoOut
     ELSE /\ LET sessions == ab_parse_sessions
             IN  bOut' = [mode |-> mode, sessions |-> sessions,
                          value |-> IF sessions = <<>> THEN BASE[mode]
                                    ELSE compute_budget(mode, sessions),
                          all |-> NoAll]
          /\ bpc' = "printed"
  /\ UNCHANGED <<enrichVars, logVars, confVars, rotVars>>

\* all_budgets: budget and diagnostics of every mode; amounts in cents
all_budgets(sessions) ==
  [m \in Modes |->
     LET typed == Typed(m, sessions)
         recent == LastN(typed, WindowSize)
         n == Len(recent)
     IN  [budget |-> compute_budget(m, sessions),
          recent_count |-> n,
          avg_cost |-> IF n = 0 THEN 0 ELSE RoundDiv(SumCost(recent), n, 100),
          cost_per_commit |-> IF n = 0 THEN 0
                              ELSE CostPerCommit(SumCost(recent), SumCommits(recent)),
          total_commits |-> SumCommits(recent)]]

\* main with --json: parse the log, print all_budgets
BudgetJson ==
  /\ bpc = "idle"
  /\ IF BudgetRaises
     THEN /\ bpc' = "raised"
          /\ bOut' = NoOut
     ELSE /\ LET sessions == ab_parse_sessions
             IN  bOut' = [mode |-> "-", sessions |-> sessions, value |-> 0,
                          all |-> all_budgets(sessions)]
          /\ bpc' = "json"
  /\ UNCHANGED <<enrichVars, logVars, confVars, rotVars>>

\* the exit status of adaptive-budget.py: 1 after an uncaught exception
BudgetExitStatus(p) == IF p = "raised" THEN 1 ELSE 0

\* the process exits
BudgetExit ==
  /\ bpc \in {"printed", "json", "raised"}
  /\ bpc' = "idle"
  /\ bOut' = NoOut
  /\ UNCHANGED <<enrichVars, logVars, confVars, rotVars>>


\* the session runner appends a line to the log (creating the log if absent)
AppendLine(l) ==
  /\ historyExists' = TRUE
  /\ history' = Append(history, l)

LogSession ==
  /\ bpc = "idle"
  /\ Len(history) < MaxHist
  /\ \E l \in LogLines :
       /\ Runs(Append(history, l)) <= MaxRuns
       /\ AppendLine(l)
  /\ UNCHANGED <<enrichVars, budgetVars, confVars, rotVars>>

\* ------------------------------------------------------------ rotation.conf
BBRE == <<"B", "B", "R", "E">>
BBBR == <<"B", "B", "B", "R">>
BBBRE == <<"B", "B", "B", "R", "E">>

WordChars == {"B", "R", "E"}
NL == "\n"

\* f"# auto-tuner: {reason}"; a reason is named by the rule that produced it
Annotation(reason) ==
  CASE reason = "reduce-E" -> "# auto-tuner: E sessions with 0 commits"
    [] reason = "increase-B" -> "# auto-tuner: B sessions most efficient"
    [] OTHER -> "# auto-tuner: Balanced efficiency"

\* str.splitlines(): the text is cut at every "\n"; no empty last line
RECURSIVE SplitFrom(_, _)
SplitFrom(data, cur) ==
  IF data = <<>> THEN (IF cur = <<>> THEN <<>> ELSE <<cur>>)
  ELSE IF data[1] = NL THEN <<cur>> \o SplitFrom(Tail(data), <<>>)
  ELSE SplitFrom(Tail(data), Append(cur, data[1]))

splitlines(data) == SplitFrom(data, <<>>)

\* "\n".join(ls) + "\n"
RECURSIVE JoinLines(_)
JoinLines(ls) ==
  IF Len(ls) = 0 THEN <<NL>>
  ELSE IF Len(ls) = 1 THEN ls[1] \o <<NL>>
  ELSE ls[1] \o <<NL>> \o JoinLines(Tail(ls))

\* line.startswith("PATTERN=")
StartsWithPattern(line) == Len(line) >= 1 /\ line[1] = "PATTERN="

\* the longest run of word characters at the head of s: the group (\w+)
RECURSIVE WordRun(_)
WordRun(s) ==
  IF s = <<>> \/ s[1] \notin WordChars THEN <<>>
  ELSE <<s[1]>> \o WordRun(Tail(s))

\* re.match(r'PATTERN=(\w+)', line) succeeds
Matches(line) == StartsWithPattern(line) /\ WordRun(Tail(line)) # <<>>

\* another pattern returned when no line matches
DefaultPattern_BBBR == BBBR

\* return "BBRE"
DefaultPattern == BBRE

RECURSIVE FirstPattern(_)
FirstPattern(ls) ==
  IF ls = <<>> THEN DefaultPattern
  ELSE IF Matches(ls[1]) THEN WordRun(Tail(ls[1]))
  ELSE FirstPattern(Tail(ls))

\* read_current_pattern on the content of an existing rotation.conf
read_current_pattern(data) == FirstPattern(splitlines(data))

\* the PATTERN= line alone, without its annotation
PatternField_noAnnotation(new_pattern, reason) ==
  << <<"PATTERN=">> \o new_pattern >>

\* the two lines appended for a line that starts with PATTERN=
PatternField(new_pattern, reason) ==
  << <<Annotation(reason)>>, <<"PATTERN=">> \o new_pattern >>

\* the loop of apply_pattern over the lines read
RECURSIVE Rewrite(_, _, _)
Rewrite(ls, new_pattern, reason) ==
  IF ls = <<>> THEN <<>>
  ELSE (IF StartsWithPattern(ls[1])
        THEN PatternField(new_pattern, reason)
        ELSE <<ls[1]>>)
       \o Rewrite(Tail(ls), new_pattern, reason)

\* the text apply_pattern writes, from the lines it read
apply_pattern(ls, new_pattern, reason) == JoinLines(Rewrite(ls, new_pattern, reason))

\* a write of data at offset 0 of a file that holds old
Overlay(old, data) == data \o SubSeq(old, Len(data) + 1, Len(old))

\* --------------------------------------------------------- rotation-tuner.py
NoStats == [count |-> 0, avg_cost |-> 0, avg_commits |-> 0, cost_per_commit |-> 0]

\* analyze: avg_cost and cost_per_commit in cents, avg_commits in tenths;
\* a mode without sessions has no entry (count = 0)
analyze(sessions) ==
  [m \in Modes |->
     LET t == Typed(m, sessions)
         n == Len(t)
     IN  IF n = 0 THEN NoStats
         ELSE [count |-> n,
               avg_cost |-> RoundDiv(SumCost(t), n, 100),
               avg_commits |-> RoundDiv(10 * SumCommits(t), n, 10),
               cost_per_commit |-> CostPerCommit(SumCost(t), SumCommits(t))]]

\* dict.get(key, default) on the entry of a mode
Get(a, m, key, default) == IF a[m].count = 0 THEN default ELSE a[m][key]

\* r.get("avg_commits", 0) >= 1.0, the average in tenths
Productive(avg_commits) == avg_commits >= 10

\* Reflect dropped together with Engage
WastefulPattern_noReflect(r_productive) ==
  IF ~r_productive THEN <<"B", "B", "B">> ELSE BBBRE

\* pattern = "BBBR" if not r_productive else "BBBRE"
WastefulPattern(r_productive) == IF ~r_productive THEN BBBR ELSE BBBRE

\* changed computed against the default pattern instead of the current one
recommend_vsDefault(a, current_pattern) ==
  LET b_cpc == Get(a, "B", "cost_per_commit", 9900)
      r_cpc == Get(a, "R", "cost_per_commit", 9900)
      e_avg_cost == Get(a, "E", "avg_cost", 9900)
      e_wasteful == e_avg_cost > 100 /\ Get(a, "E", "avg_commits", 0) = 0
      b_efficient == b_cpc < 200
      r_productive == Productive(Get(a, "R", "avg_commits", 0))
      pattern == IF e_wasteful THEN WastefulPattern(r_productive)
                 ELSE IF b_efficient /\ b_cpc < r_cpc THEN BBBRE
                 ELSE BBRE
      reason == IF e_wasteful THEN "reduce-E"
                ELSE IF b_efficient /\ b_cpc < r_cpc THEN "increase-B"
                ELSE "balanced"
  IN  [pattern |-> pattern, reason |-> reason,
       changed |-> pattern # BBRE, current |-> current_pattern]

recommend(a, current_pattern) ==
  LET b_cpc == Get(a, "B", "cost_per_commit", 9900)
      r_cpc == Get(a, "R", "cost_per_commit", 9900)
      e_avg_cost == Get(a, "E", "avg_cost", 9900)
      e_wasteful == e_avg_cost > 100 /\ Get(a, "E", "avg_commits", 0) = 0
      b_efficient == b_cpc < 200
      r_productive == Productive(Get(a, "R", "avg_commits", 0))
      pattern == IF e_wasteful THEN WastefulPattern(r_productive)
                 ELSE IF b_efficient /\ b_cpc < r_cpc THEN BBBRE
                 ELSE BBRE
      reason == IF e_wasteful THEN "reduce-E"
                ELSE IF b_efficient /\ b_cpc < r_cpc THEN "increase-B"
                ELSE "balanced"
  IN  [pattern |-> pattern, reason |-> reason,
       changed |-> pattern # current_pattern, current |-> current_pattern]

NProcs == 2
Procs == 1..NProcs
MaxRotHist == 5

NoRec == [pattern |-> <<>>, reason |-> "-", changed |-> FALSE, current |-> <<>>]
NoAnalysis == [m \in Modes |-> NoStats]

\* rotation-tuner.py parse_sessions: the log is opened without a test for
\* its existence
rt_parse_sessions == ParseLines(history)

\* main: sessions = parse_sessions(); fewer than 5 sessions exit with status 1
RotStart(i, apply) ==
  /\ pc[i] = "idle"
  /\ doApply' = [doApply EXCEPT ![i] = apply]
  /\ IF ~historyExists \/ ParseRaises(history)
     THEN /\ pc' = [pc EXCEPT ![i] = "raised"]
          /\ UNCHANGED analysis
     ELSE IF Len(rt_parse_sessions) < 5
     THEN /\ pc' = [pc EXCEPT ![i] = "exit1"]
          /\ UNCHANGED analysis
     ELSE /\ pc' = [pc EXCEPT ![i] = "analyzed"]
          /\ analysis' = [analysis EXCEPT ![i] = analyze(rt_parse_sessions)]
  /\ UNCHANGED <<enrichVars, logVars, confVars, budgetVars, rec, lines, writes>>

\* the apply flag alone
ShouldApply_flagOnly(apply, r) == apply

\* main: if do_apply and rec["changed"]
ShouldApply(apply, r) == apply /\ r.changed

\* main: current = read_current_pattern(); rec = recommend(analysis, current);
\* the report is printed, which is the last use of the analysis
RotRead(i) ==
  /\ pc[i] = "analyzed"
  /\ IF ~confExists
     THEN /\ pc' = [pc EXCEPT ![i] = "raised"]
          /\ UNCHANGED rec
     ELSE LET r == recommend(analysis[i], read_current_pattern(conf))
          IN  /\ rec' = [rec EXCEPT ![i] = r]
              /\ pc' = [pc EXCEPT ![i] =
                          IF ShouldApply(doApply[i], r) THEN "apply" ELSE "done"]
  /\ analysis' = [analysis EXCEPT ![i] = NoAnalysis]
  /\ UNCHANGED <<enrichVars, logVars, confVars, budgetVars, doApply, lines, writes>>

\* apply_pattern: lines = Path(ROTATION_CONF).read_text().splitlines()
ApplyRead(i) ==
  /\ pc[i] = "apply"
  /\ lines' = [lines EXCEPT ![i] = splitlines(conf)]
  /\ pc' = [pc EXCEPT ![i] = "open"]
  /\ UNCHANGED <<enrichVars, logVars, confVars, budgetVars, doApply, analysis, rec, writes>>

\* the text this invocation is about to write
NewData(i) == apply_pattern(lines[i], rec[i].pattern, rec[i].reason)

\* write_text opens rotation.conf for writing, which truncates it
ApplyOpen(i) ==
  /\ pc[i] = "open"
  /\ conf' = <<>>
  /\ writes' = [writes EXCEPT ![i] = @ + 1]
  /\ pc' = [pc EXCEPT ![i] = "writing"]
  /\ UNCHANGED <<enrichVars, logVars, confExists, budgetVars, doApply, analysis, rec, lines>>

\* write_text writes the text at offset 0 and closes; "Applied" is printed
ApplyWrite(i) ==
  /\ pc[i] = "writing"
  /\ conf' = Overlay(conf, NewData(i))
  /\ pc' = [pc EXCEPT ![i] = "done"]
  /\ UNCHANGED <<enrichVars, logVars, confExists, budgetVars, doApply, analysis, rec, lines, writes>>

\* the write fails (the process is killed, the device is full): the text is
\* shorter than the buffer of the file object and reaches the file in one
\* write when the file is closed, so a failure before that writes nothing
ApplyFail(i) ==
  /\ pc[i] = "writing"
  /\ pc' = [pc EXCEPT ![i] = "failed"]
  /\ UNCHANGED <<enrichVars, logVars, confVars, budgetVars, doApply, analysis, rec, lines, writes>>

\* the exit status of rotation-tuner.py: sys.exit(1) on fewer than 5
\* sessions, 1 after an uncaught exception or a failed write
RotExitStatus(p) == IF p \in {"exit1", "raised", "failed"} THEN 1 ELSE 0

\* the process has exited; the next invocation starts afresh
RotExit(i) ==
  /\ pc[i] \in {"done", "exit1", "raised"}
  /\ pc' = [pc EXCEPT ![i] = "idle"]
  /\ rec' = [rec EXCEPT ![i] = NoRec]
  /\ doApply' = [doApply EXCEPT ![i] = FALSE]
  /\ UNCHANGED <<enrichVars, logVars, confVars, budgetVars, analysis, lines, writes>>

\* the lines appended while the tuner is in use
RotLogLines ==
  {SessionLine("E", 600, NoneBuild), SessionLine("E", 100, 2)}

\* a session ends and its line is appended, on a log of fewer than n lines
LogSessionUpTo(n) ==
  /\ historyExists
  /\ Len(history) < n
  /\ \E l \in RotLogLines : AppendLine(l)
  /\ UNCHANGED <<enrichVars, budgetVars, confVars, rotVars>>

RotLogSession == LogSessionUpTo(MaxRotHist)

Rep4(l) == <<l, l, l, l>>

\* the logs the tuner starts from
RotHistories ==
  {Rep4(SessionLine("B", 100, 2)), Rep4(SessionLine("B", 600, NoneBuild)),
   Rep4(SessionLine("R", 100, 2))}

\* the contents of rotation.conf the tuner starts from
ConfInits ==
  { <<"# rotation", NL, "PATTERN=", "B", "B", "R", "E", NL>>,
    <<"PATTERN=", "B", "B", "B", "R", NL, "# end", NL>>,
    <<"# rotation", NL>>,
    <<"PATTERN=", "E", "B">>,
    <<"PATTERN=", NL>> }

RotIdle ==
  /\ pc = [i \in Procs |-> "idle"]
  /\ doApply = [i \in Procs |-> FALSE]
  /\ analysis = [i \in Procs |-> NoAnalysis]
  /\ rec = [i \in Procs |-> NoRec]
  /\ lines = [i \in Procs |-> <<>>]
  /\ writes = [i \in Procs |-> 0]

BudgetIdle ==
  /\ bpc = "idle"
  /\ bOut = NoOut

\* ------------------------------------------- scripts/directive-enrichment.py
\* A dict is a record with a field keys, the set of the keys it holds; the
\* field of a key it does not hold is not read.  An id of a queue item is a
\* positive number, an id of a directive is a string.  A title is the
\* sequence of its words.  The notes of a directive are a sequence of tokens:
\*   [kind |-> "s", digits |-> ds]   the letter s followed by the digits ds
\*   [kind |-> "R#", digits |-> ds]  R# followed by the digits ds
\*   [kind |-> "text", digits |-> <<>>, len |-> n]  n other characters
\* separated by single spaces.
None == "None"

\* dict.get(key, default)
DGet(d, key, default) == IF key \in d.keys THEN d[key] ELSE default

RECURSIVE Number(_)
Number(ds) == IF ds = <<>> THEN 0 ELSE 10 * Number(SubSeq(ds, 1, Len(ds) - 1)) + ds[Len(ds)]

\* re.findall(r"s(\d{3,4})", notes): at least 3 digits, and no more than the
\* first 4 are taken
SRefs(notes) ==
  {Number(SubSeq(notes[k].digits, 1, Min(4, Len(notes[k].digits)))) :
     k \in {j \in 1..Len(notes) : notes[j].kind = "s" /\ Len(notes[j].digits) >= 3}}

\* the R# references are left out
RRefs_none(notes) == {}

\* re.findall(r"R#(\d+)", notes)
RRefs(notes) ==
  {Number(notes[k].digits) :
     k \in {j \in 1..Len(notes) : notes[j].kind = "R#" /\ Len(notes[j].digits) >= 1}}

SetMax(S) == CHOOSE x \in S : \A y \in S : y <= x

\* the number of characters of a token
TokenLen(t) ==
  IF t.kind = "text" THEN t.len
  ELSE IF t.kind = "s" THEN 1 + Len(t.digits)
  ELSE 2 + Len(t.digits)

RECURSIVE NotesLen(_)
\* len(notes)
NotesLen(notes) ==
  IF notes = <<>> THEN 0
  ELSE TokenLen(notes[1]) + (IF Len(notes) > 1 THEN 1 ELSE 0) + NotesLen(Tail(notes))

\* did in title, for a title given by its words
Contains(title, did) == did = "" \/ \E k \in 1..Len(title) : title[k] = did

\* item.get("status") == "blocked"
Blocked(item) == DGet(item, "status", None) = "blocked"

\* the ids the loop body of one directive d assigns in qi_to_directive
LinkedIds(d, queue) ==
  LET qi == DGet(d, "queue_item", 0)
      did == DGet(d, "id", "")
  IN  (IF qi # 0 THEN {qi} ELSE {})
      \cup {queue[k].id : k \in {j \in 1..Len(queue) :
                                   /\ Blocked(queue[j])
                                   /\ Contains(DGet(queue[j], "title", <<>>), did)}}

\* qi_to_directive after the directives dirs, from the map m: a later
\* directive replaces an earlier one under the same id
RECURSIVE BuildLinks(_, _, _)
BuildLinks(dirs, queue, m) ==
  IF dirs = <<>> THEN m
  ELSE LET ids == LinkedIds(dirs[1], queue)
       IN  BuildLinks(Tail(dirs), queue,
                      [w \in DOMAIN m \cup ids |-> IF w \in ids THEN dirs[1] ELSE m[w]])

\* the entry of one directive
Entry(directive) ==
  LET notes == DGet(directive, "notes", <<>>)
      sessions == SRefs(notes) \cup RRefs(notes)
  IN  [directive_id |-> DGet(directive, "id", None),
       directive_status |-> DGet(directive, "status", None),
       last_activity_session |-> IF sessions # {} THEN SetMax(sessions)
                                 ELSE DGet(directive, "acked_session", 0),
       has_recent_notes |-> NotesLen(notes) > 50]

\* compute_enrichment(directives_data, queue_data): a function from the ids
\* of the enriched items to their entries
compute_enrichment(directives_data, queue_data) ==
  LET dirs == DGet(directives_data, "directives", <<>>)
      queue == DGet(queue_data, "queue", <<>>)
      qi_to_directive == BuildLinks(dirs, queue, <<>>)
      wids == {queue[k].id : k \in {j \in 1..Len(queue) :
                 /\ Blocked(queue[j])
                 /\ queue[j].id \in DOMAIN qi_to_directive
                 /\ qi_to_directive[queue[j].id].keys # {}}}
  IN  [wid \in wids |-> Entry(qi_to_directive[wid])]

\* the call
Enrich ==
  /\ epc = "idle"
  /\ eOut' = compute_enrichment(eIn.directives_data, eIn.queue_data)
  /\ epc' = "done"
  /\ UNCHANGED <<eIn, logVars, confVars, budgetVars, rotVars>>

\* the bounds of the inputs
MaxDirs == 2
MaxItems == 2

Dir(keys, id, qi, status, notes, acked) ==
  [keys |-> keys, id |-> id, queue_item |-> qi, status |-> status,
   notes |-> notes, acked_session |-> acked]

SRef(ds) == [kind |-> "s", digits |-> ds, len |-> 0]
RRef(ds) == [kind |-> "R#", digits |-> ds, len |-> 0]
Text(n) == [kind |-> "text", digits |-> <<>>, len |-> n]

\* directives as directives.json holds them, some with keys left out
DirectiveSet ==
  { Dir({"id", "status", "notes"}, "d001", 0, "active",
        <<Text(8), SRef(<<5, 0, 0>>), RRef(<<7>>)>>, 0),
    Dir({"id", "queue_item", "status", "notes", "acked_session"}, "d002", 1, "pending",
        <<Text(60)>>, 400),
    Dir({"status", "notes"}, "", 0, "active",
        <<SRef(<<5, 0>>), RRef(<<6, 1, 2>>)>>, 0),
    Dir({"id", "queue_item", "status"}, "d001", 2, "active", <<>>, 0),
    Dir({}, "", 0, "", <<>>, 0),
    Dir({"id", "status", "notes", "acked_session"}, "d002", 0, "active",
        <<SRef(<<1, 2, 0, 0>>), Text(4), SRef(<<4, 8, 0>>)>>, 300) }

Item(keys, id, status, title) ==
  [keys |-> keys, id |-> id, status |-> status, title |-> title]

\* the status and the title of an item
ItemShapes ==
  { [keys |-> ks, status |-> st, title |-> ti] :
      ks \in {{"id", "status", "title"}}, st \in {"blocked", "pending"},
      ti \in {<<"fix", "login">>, <<"d001", "auth">>, <<"d002">>} }
  \cup { [keys |-> {"id", "status"}, status |-> st, title |-> <<>>] :
           st \in {"blocked", "pending"} }

\* the queues of n items; the item at position k has the id k
Queues(n) ==
  { [k \in 1..n |-> Item(f[k].keys, k, f[k].status, f[k].title)] :
      f \in [1..n -> ItemShapes] }

DirectiveLists(n) == [1..n -> DirectiveSet]

NoKey == [keys |-> {}]

\* directives.json and work-queue.json as loaded
EnrichInputs ==
  { [directives_data |-> dd, queue_data |-> qd] :
      dd \in {NoKey} \cup { [keys |-> {"directives"}, directives |-> ds] :
                              ds \in UNION {DirectiveLists(n) : n \in 0..MaxDirs} },
      qd \in {NoKey} \cup { [keys |-> {"queue"}, queue |-> q] :
                              q \in UNION {Queues(n) : n \in 0..MaxItems} } }

EnrichIdle ==
  /\ eIn = [directives_data |-> NoKey, queue_data |-> NoKey]
  /\ eOut = <<>>
  /\ epc = "idle"

InitEnrich ==
  /\ historyExists = FALSE
  /\ history = <<>>
  /\ confExists = FALSE
  /\ conf = <<>>
  /\ BudgetIdle
  /\ RotIdle
  /\ eIn \in EnrichInputs
  /\ eOut = <<>>
  /\ epc = "idle"

NextEnrich == Enrich

SpecEnrich == InitEnrich /\ [][NextEnrich]_vars

Init ==
  /\ \/ historyExists = FALSE /\ history = <<>>
     \/ historyExists = TRUE /\ history \in RotHistories
  /\ \/ confExists = FALSE /\ conf = <<>>
     \/ confExists = TRUE /\ conf \in ConfInits
  /\ BudgetIdle
  /\ RotIdle
  /\ EnrichIdle

Next ==
  \/ RotLogSession
  \/ \E i \in Procs, apply \in BOOLEAN : RotStart(i, apply)
  \/ \E i \in Procs : RotRead(i)
  \/ \E i \in Procs : ApplyRead(i)
  \/ \E i \in Procs : ApplyOpen(i)
  \/ \E i \in Procs : ApplyWrite(i)
  \/ \E i \in Procs : ApplyFail(i)

Spec == Init /\ [][Next]_vars

InitBudget ==
  /\ historyExists \in BOOLEAN
  /\ history = <<>>
  /\ confExists = FALSE
  /\ conf = <<>>
  /\ BudgetIdle
  /\ RotIdle
  /\ EnrichIdle

NextBudget ==
  \/ LogSession
  \/ \E m \in Modes : BudgetMain(m)
  \/ BudgetExit

SpecBudget == InitBudget /\ [][NextBudget]_vars

\* ------------------------------------- budgets of windows at the tier bounds
MaxWin == 4

\* session lines whose windows sit on, below and above the bounds of the
\* tiers and of the damping rule
TierLines(m) ==
  IF m = "E"
  THEN {SessionLine("E", 100, NoneBuild), SessionLine("E", 100, 5),
        SessionLine("E", 300, NoneBuild), SessionLine("E", 450, NoneBuild),
        SessionLine("E", 300, 2), SessionLine("E", 600, NoneBuild)}
  ELSE {SessionLine(m, 600, 10), SessionLine(m, 100, 1), SessionLine(m, 600, 3),
        SessionLine(m, 100, 2), SessionLine(m, 600, 12), SessionLine(m, 600, NoneBuild),
        SessionLine(m, BASE[m] \div 2, BASE[m] \div 100)}

\* a copies of the line l1 followed by b copies of the line l2
TwoRuns(l1, a, l2, b) == [k \in 1..(a + b) |-> IF k <= a THEN l1 ELSE l2]

TierHistories ==
  {TwoRuns(l1, a, l2, b) :
     l1 \in UNION {TierLines(m) : m \in Modes},
     l2 \in UNION {TierLines(m) : m \in Modes},
     a \in 0..MaxWin, b \in 0..MaxWin} \cap
  {h \in Seq(UNION {TierLines(m) : m \in Modes}) : Len(h) <= MaxWin}

InitTier ==
  /\ historyExists = TRUE
  /\ history \in TierHistories
  /\ confExists = FALSE
  /\ conf = <<>>
  /\ BudgetIdle
  /\ RotIdle
  /\ EnrichIdle

NextTier ==
  \/ \E m \in Modes : BudgetMain(m)
  \/ BudgetExit

SpecTier == InitTier /\ [][NextTier]_vars

\* ------------------------------------------ both scripts queried on one log
\* the lines logged between the queries
QueryLines ==
  {SessionLine("B", 100, 2), SessionLine("B", 600, NoneBuild),
   SessionLine("E", 600, NoneBuild), SessionLine("R", 100, 2),
   JunkLine, BadCostLine}

PlainConf == <<"# rotation", NL, "PATTERN=", "B", "B", "R", "E", NL>>

\* a line is appended while no query is running
LogBetweenQueries ==
  /\ bpc = "idle"
  /\ pc[1] = "idle"
  /\ Len(history) < MaxHist
  /\ \E l \in QueryLines :
       /\ Runs(Append(history, l)) <= MaxRuns
       /\ AppendLine(l)
  /\ UNCHANGED <<enrichVars, budgetVars, confVars, rotVars>>

InitQuery ==
  /\ historyExists \in BOOLEAN
  /\ history = <<>>
  /\ confExists = TRUE
  /\ conf = PlainConf
  /\ BudgetIdle
  /\ RotIdle
  /\ EnrichIdle

NextQuery ==
  \/ LogBetweenQueries
  \/ \E m \in Modes : bpc = "idle" /\ pc[1] = "idle" /\ BudgetMain(m)
  \/ BudgetJson
  \/ BudgetExit
  \/ bpc = "idle" /\ RotStart(1, FALSE)
  \/ RotRead(1)
  \/ RotExit(1)

SpecQuery == InitQuery /\ [][NextQuery]_vars

\* --------------------------------------- recommendations over many histories
MaxE == 21
MaxR == 20

\* n copies of the line l
Copies(l, n) == [k \in 1..n |-> l]

\* the Build part of a log: no session, or three alike
BuildParts ==
  {<<>>} \cup {Copies(SessionLine("B", c[1], c[2]), 3) :
                c \in {<<100, 2>>, <<600, NoneBuild>>, <<200, 1>>, <<300, 2>>}}

\* the Reflect part: no session, two alike, or MaxR sessions with a commit
\* and one without
ReflectParts ==
  {<<>>, Copies(SessionLine("R", 100, 1), MaxR) \o <<SessionLine("R", 100, NoneBuild)>>}
    \cup {Copies(SessionLine("R", c[1], c[2]), 2) :
                c \in {<<100, 2>>, <<100, 1>>, <<600, NoneBuild>>, <<300, 2>>}}

\* the Engage part: up to MaxE sessions without a commit, then none or one
\* session with a commit
EngageParts ==
  {Copies(SessionLine("E", c, NoneBuild), n) \o last :
     c \in {100, 600}, n \in 0..MaxE,
     last \in {<<>>, <<SessionLine("E", 600, 1)>>}}

RecHistories == {b \o r \o e : b \in BuildParts, r \in ReflectParts, e \in EngageParts}

InitRec ==
  /\ historyExists = TRUE
  /\ history \in RecHistories
  /\ confExists = TRUE
  /\ conf = PlainConf
  /\ BudgetIdle
  /\ RotIdle
  /\ EnrichIdle

NextRec ==
  \/ RotStart(1, FALSE)
  \/ RotRead(1)
  \/ RotExit(1)

SpecRec == InitRec /\ [][NextRec]_vars

\* ------------------------------------------- budgets over long histories
MaxOld == 2

OldLines ==
  {SessionLine("B", 600, 12), SessionLine("B", 600, NoneBuild),
   SessionLine("E", 600, NoneBuild), SessionLine("R", 100, 1)}

RecentLines ==
  {SessionLine("B", 600, 3), SessionLine("B", 100, 2),
   SessionLine("E", 100, NoneBuild), SessionLine("R", 600, 3)}

\* up to MaxOld older sessions, then WindowSize - 1 to WindowSize + 1
\* sessions alike, with none or one other session before the last of them
WindowHistories ==
  {Copies(o, a) \o Copies(l, b) \o Copies(x, c) \o <<l>> :
     o \in OldLines, a \in 0..MaxOld,
     l \in RecentLines, b \in (WindowSize - 2)..WindowSize,
     x \in OldLines, c \in 0..1}

InitWindow ==
  /\ historyExists = TRUE
  /\ history \in WindowHistories
  /\ confExists = FALSE
  /\ conf = <<>>
  /\ BudgetIdle
  /\ RotIdle
  /\ EnrichIdle

NextWindow ==
  \/ \E m \in Modes : BudgetMain(m)
  \/ BudgetExit

SpecWindow == InitWindow /\ [][NextWindow]_vars

\* ----------------------------------------- one tuner invoked again and again
MaxApplyHist == 7
MaxApplies == 3

\* logs of five sessions
RerunHistories ==
  {Copies(SessionLine("B", 100, 2), 5), Copies(SessionLine("B", 600, NoneBuild), 5),
   Copies(SessionLine("R", 100, 2), 5),
   Copies(SessionLine("B", 100, 2), 3) \o Copies(SessionLine("E", 100, 2), 2),
   Copies(SessionLine("R", 100, 2), 3) \o Copies(SessionLine("E", 600, NoneBuild), 2),
   Copies(SessionLine("B", 300, 2), 3) \o Copies(SessionLine("E", 100, 2), 2)}

InitRerun ==
  /\ historyExists = TRUE
  /\ history \in RerunHistories
  /\ confExists = TRUE
  /\ conf \in ConfInits
  /\ BudgetIdle
  /\ RotIdle
  /\ EnrichIdle

\* the invocations follow one another, until MaxApplies of them have
\* written; every write succeeds
Invocation ==
  \/ writes[1] < MaxApplies /\ \E apply \in BOOLEAN : RotStart(1, apply)
  \/ RotRead(1)
  \/ ApplyRead(1)
  \/ ApplyOpen(1)
  \/ ApplyWrite(1)
  \/ RotExit(1)

\* the same history at every invocation
NextRerun == Invocation

SpecRerun == InitRerun /\ [][NextRerun]_vars

\* sessions are logged between the invocations
NextApplies ==
  \/ pc[1] = "idle" /\ LogSessionUpTo(MaxApplyHist)
  \/ Invocation

SpecApplies == InitRerun /\ [][NextApplies]_vars

\* ================================================================= claims
\* the sessions of the queried mode, and its window
QTyped == Typed(bOut.mode, bOut.sessions)
QWindow == LastN(QTyped, WindowSize)

\* C1: for every mode and every history the printed budget v satisfies
\* floor(mode) <= v <= ceiling(mode), the bounds being CAPS[mode].
C1_BudgetWithinCaps ==
  bpc = "printed" =>
    /\ CAPS[bOut.mode].lo <= bOut.value
    /\ bOut.value <= CAPS[bOut.mode].hi

\* a Build query whose tier multiplier was applied and cut at the ceiling
C1_Witness ==
  /\ bpc = "printed"
  /\ bOut.mode = "B"
  /\ Len(QTyped) >= MinSamples
  /\ CommitTier(SumCost(QWindow), SumCommits(QWindow)) = 130
  /\ bOut.value = CAPS["B"].hi

\* C2: with fewer than 3 records of the requested mode (an empty history
\* included) the budget is exactly BASE[mode].
C2_InsufficientGivesBase ==
  (bpc = "printed" /\ Len(QTyped) < 3) => bOut.value = BASE[bOut.mode]

\* two records of the queried mode, which alone would earn another budget
C2_Witness ==
  /\ bpc = "printed"
  /\ Len(QTyped) = 2
  /\ bOut.mode = "B"
  /\ CommitTier(SumCost(QWindow), SumCommits(QWindow)) = 75
  /\ bOut.value = BASE["B"]

\* Scenario A: the Build window is 10 records of cost 1.00 and 2 commits
ScenarioA ==
  /\ bpc = "printed"
  /\ bOut.mode = "B"
  /\ Len(QWindow) = 10
  /\ \A k \in 1..Len(QWindow) : QWindow[k].cost = 100 /\ QWindow[k].commits = 2

\* C3 as stated: in Scenario A the recommended Build budget is 12.00.
C3_ScenarioA_Stated == ScenarioA => bOut.value = 1200

\* C3 amended: in Scenario A the recommended Build budget is 10.00: the
\* tier gives 13, and the damping rule (avgCost 1.0 < 0.5 x base) caps it
\* at base.
C3_ScenarioA_Amended == ScenarioA => bOut.value = 1000

C3_Witness == ScenarioA /\ Len(QTyped) >= 10

\* Scenario B: the history holds 10 Engage records of cost 6.00
ScenarioB ==
  /\ bpc = "printed"
  /\ bOut.mode = "E"
  /\ Len(QTyped) = 10
  /\ \A k \in 1..Len(QTyped) : QTyped[k].cost = 600

\* C4: in Scenario B the recommended Engage budget is 5.50.
C4_ScenarioB_Stated == ScenarioB => bOut.value = 550

\* what apply_pattern read is what rotation.conf holds, for an invocation
\* that is the only one to have written
OnlyWriter(i) == \A j \in Procs \ {i} : writes[j] = 0

\* C5: after an apply that failed part-way through its write, rotation.conf
\* holds its complete content of before, and reading the pattern gives the
\* pattern of before.
C5_FailedApplyKeepsContent ==
  \A i \in Procs :
    (pc[i] = "failed" /\ OnlyWriter(i)) =>
      /\ splitlines(conf) = lines[i]
      /\ read_current_pattern(conf) = rec[i].current

\* the patterns of the complete texts of an invocation that is writing
WholePatterns(i) == {FirstPattern(lines[i]), read_current_pattern(NewData(i))}

\* C6: while an invocation is writing, a read_current_pattern of another
\* invocation returns the pattern of before the write or the new pattern.
C6_ReaderSeesWholePattern ==
  [][\A j \in Procs :
       (/\ pc[j] = "analyzed"
        /\ pc'[j] \in {"apply", "done"}
        /\ \E i \in Procs : pc[i] = "writing")
       => rec'[j].current \in UNION {WholePatterns(i) : i \in {w \in Procs : pc[w] = "writing"}}]_vars

\* C7: rotation.conf is written by an invocation if and only if --apply is
\* given and the recommendation differs from the current pattern, and no
\* invocation writes it more than once.
C7_WriteIffApplyAndChanged ==
  [][/\ conf' # conf =>
          \E i \in Procs : /\ pc[i] \in {"open", "writing"}
                           /\ doApply[i] /\ rec[i].changed
     /\ \A i \in Procs :
          /\ writes'[i] <= 1
          /\ writes'[i] = 1 => (doApply'[i] /\ rec'[i].changed)
          /\ pc'[i] = "done" =>
               (writes'[i] = 1 <=> (doApply'[i] /\ rec'[i].changed))]_vars

\* one invocation has applied a change, another ran with --apply and found
\* nothing to change
C7_Witness ==
  \E i, j \in Procs :
    /\ pc[i] = "done" /\ writes[i] = 1
    /\ pc[j] = "done" /\ doApply[j] /\ ~rec[j].changed /\ writes[j] = 0

\* C8: apply_pattern(p, reason) followed by read_current_pattern() returns p,
\* whatever rotation.conf held before.
C8_RoundTrip ==
  \A i \in Procs :
    (/\ pc[i] = "done" /\ writes[i] = 1
     /\ \A j \in Procs \ {i} : pc[j] = "idle")
    => read_current_pattern(conf) = rec[i].pattern

Recommended(i) == pc[i] \in {"apply", "open", "writing", "done", "failed"}

\* C9: recommend returns changed = false if and only if the pattern it
\* computed equals the current pattern it was given.
C9_ChangedIffDiffers ==
  \A i \in Procs :
    Recommended(i) => (rec[i].changed = FALSE <=> rec[i].pattern = rec[i].current)

\* one recommendation equal to a current pattern other than the default,
\* another against a current pattern the engine never produces
C9_Witness ==
  \E i, j \in Procs :
    /\ Recommended(i) /\ ~rec[i].changed /\ rec[i].current # BBRE
    /\ Recommended(j) /\ rec[j].changed /\ rec[j].current \notin {BBRE, BBBR, BBBRE}

\* C10: an absent session log or rotation.conf is a cold start: no
\* invocation raises, and the budget script reports the base budget from an
\* empty history.
C10_AbsentIsColdStart ==
  /\ \A i \in Procs : pc[i] # "raised"
  /\ (bpc = "printed" /\ ~historyExists) =>
       (bOut.sessions = <<>> /\ bOut.value = BASE[bOut.mode])

\* the records the well-formed lines of the log stand for
WellFormed(ls) == {k \in 1..Len(ls) : ls[k].shape = "session"}

\* C11: an invocation that finds too few session records ends with exit
\* status 0 and reports the defaults, in the budget query (the base budget
\* of the mode) and in the rotation query alike.
C11_InsufficientExitsZero ==
  /\ bpc = "printed" /\ Len(QTyped) < MinSamples =>
       /\ BudgetExitStatus(bpc) = 0
       /\ bOut.value = BASE[bOut.mode]
  /\ \A i \in Procs :
       /\ pc[i] # "idle"
       /\ historyExists
       /\ ~ParseRaises(history)
       /\ Len(rt_parse_sessions) < 5
       => RotExitStatus(pc[i]) = 0

\* C12: loading the log never aborts on a malformed line: each query on an
\* existing log gets one record per well-formed line, whatever the other
\* lines contain (a non-numeric cost such as 1.2.3 included).
C12_MalformedLineSkipped ==
  /\ historyExists => bpc # "raised"
  /\ bpc \in {"printed", "json"} /\ historyExists =>
       Len(bOut.sessions) = Cardinality(WellFormed(history))
  /\ \A i \in Procs : historyExists /\ confExists => pc[i] # "raised"

\* C14: a window whose commits sum to 0 has a cost per commit equal to its
\* total cost: in the diagnostics of the budget query, in the tier the
\* budget is taken from, and in the rotation analysis.
C14_ZeroCommitsCostPerCommit ==
  /\ bpc = "json" =>
       \A m \in Modes :
         LET w == LastN(Typed(m, bOut.sessions), WindowSize)
         IN  SumCommits(w) = 0 => bOut.all[m].cost_per_commit = SumCost(w)
  /\ bpc = "printed" /\ bOut.mode \in {"B", "R"} /\ Len(QTyped) >= MinSamples
       /\ SumCommits(QWindow) = 0 =>
       LET total == SumCost(QWindow)
           tier == IF total < 60 THEN 130
                   ELSE IF total < 100 THEN 115
                   ELSE IF total < 200 THEN 100
                   ELSE 75
           scaled == BASE[bOut.mode] * tier
           damped == IF 2 * total < BASE[bOut.mode] * Len(QWindow)
                     THEN Min(scaled, BASE[bOut.mode] * 100) ELSE scaled
       IN  bOut.value = Round2(Clamp(bOut.mode, damped))
  /\ \A i \in Procs : pc[i] = "analyzed" =>
       \A m \in Modes :
         LET t == Typed(m, ParseLines(history))
         IN  t # <<>> /\ SumCommits(t) = 0 =>
               analysis[i][m].cost_per_commit = SumCost(t)

\* both queries have met a window of several sessions without a commit
C14_Witness ==
  /\ bpc = "json"
  /\ LET w == LastN(Typed("B", bOut.sessions), WindowSize)
     IN  Len(w) >= 2 /\ SumCommits(w) = 0 /\ bOut.all["B"].cost_per_commit = SumCost(w)
  /\ pc[1] = "analyzed"
  /\ analysis[1]["B"].count >= 2
  /\ analysis[1]["B"].cost_per_commit = analysis[1]["B"].count * 600

\* the text holds no line that starts with PATTERN= followed by a letter
NoPatternLine(data) ==
  ~\E j \in 1..(Len(data) - 1) :
     /\ data[j] = "PATTERN="
     /\ j = 1 \/ data[j - 1] = NL
     /\ data[j + 1] \in WordChars

\* C13: reading the pattern from a rotation.conf that exists and holds no
\* parseable PATTERN=<letters> line gives BBRE and does not fail.
C13_NoPatternGivesDefault ==
  [][\A i \in Procs :
       pc[i] = "analyzed" /\ pc'[i] # "analyzed" /\ confExists /\ NoPatternLine(conf)
       => /\ pc'[i] \in {"done", "apply"}
          /\ rec'[i].current = BBRE]_vars

\* a tuner has read a rotation.conf without a pattern line, as first written
\* or as left by a writer that had just truncated it
C13_Witness ==
  \E i \in Procs :
    /\ pc[i] \in {"done", "apply"}
    /\ rec[i].current = BBRE
    /\ confExists
    /\ NoPatternLine(conf)
    /\ conf \in {<<>>, <<"# rotation", NL>>, <<"PATTERN=", NL>>}

\* the directives and the queue a call was given
EDirs == DGet(eIn.directives_data, "directives", <<>>)
EQueue == DGet(eIn.queue_data, "queue", <<>>)

\* the directive is linked to the item: its queue_item is the id of the
\* item, or the title of the item contains its id
LinkedTo(d, item) ==
  \/ "queue_item" \in d.keys /\ d.queue_item = item.id
  \/ /\ "id" \in d.keys
     /\ "title" \in item.keys
     /\ \E w \in 1..Len(item.title) : item.title[w] = d.id

\* C16: the result of compute_enrichment has a key for an item of the queue
\* if and only if the item is blocked and some directive is linked to it;
\* also when the key directives, the key queue or a title is missing.
C16_KeyIffBlockedAndLinked ==
  epc = "done" =>
    /\ DOMAIN eOut \subseteq {EQueue[k].id : k \in 1..Len(EQueue)}
    /\ \A k \in 1..Len(EQueue) :
         EQueue[k].id \in DOMAIN eOut
         <=> /\ Blocked(EQueue[k])
             /\ \E j \in 1..Len(EDirs) : LinkedTo(EDirs[j], EQueue[k])

\* the session numbers the notes refer to: s followed by 3 or 4 digits, and
\* R# followed by digits
Referenced(notes) ==
  {Number(notes[k].digits) :
     k \in {j \in 1..Len(notes) :
              \/ notes[j].kind = "s" /\ Len(notes[j].digits) \in {3, 4}
              \/ notes[j].kind = "R#" /\ Len(notes[j].digits) >= 1}}

\* the last activity of a directive as the claim words it
LastActivity(d) ==
  LET refs == IF "notes" \in d.keys THEN Referenced(d.notes) ELSE {}
  IN  IF refs # {} THEN CHOOSE n \in refs : \A r \in refs : r <= n
      ELSE IF "acked_session" \in d.keys THEN d.acked_session
      ELSE 0

\* C17: the last_activity_session of every enriched item is the largest
\* session number the notes of its directive refer to (sNNN and R#N), the
\* acked_session of the directive when the notes refer to none, and 0 when
\* the directive has neither.
C17_LastActivity ==
  epc = "done" =>
    \A wid \in DOMAIN eOut :
      \E j \in 1..Len(EDirs) :
        /\ wid \in LinkedIds(EDirs[j], EQueue)
        /\ eOut[wid].directive_id = DGet(EDirs[j], "id", None)
        /\ eOut[wid].directive_status = DGet(EDirs[j], "status", None)
        /\ eOut[wid].last_activity_session = LastActivity(EDirs[j])

\* one item enriched from notes that hold both kinds of reference, another
\* from a directive whose notes refer to no session
C17_Witness ==
  /\ epc = "done"
  /\ \E w1, w2 \in DOMAIN eOut :
       /\ eOut[w1].directive_id = "d001"
       /\ eOut[w1].last_activity_session = 500
       /\ eOut[w2].directive_id = "d002"
       /\ eOut[w2].last_activity_session = 400

\* a budget in 1/100 cent clamped to the caps of the mode and rounded
Settled(mode, x) ==
  LET lo == CAPS[mode].lo * 100
      hi == CAPS[mode].hi * 100
      c == IF x < lo THEN lo ELSE IF x > hi THEN hi ELSE x
  IN  Round2(c)

\* C18: for Build and Reflect with at least 3 records the budget is base x m,
\* m = 1.3 if costPerCommit < 0.6, 1.15 if 0.6 <= costPerCommit < 1.0,
\* 1.0 if 1.0 <= costPerCommit < 2.0 and 0.75 if costPerCommit >= 2.0,
\* capped at base when the damping rule applies, clamped and rounded.
C18_CommitTiers ==
  bpc = "printed" /\ bOut.mode \in {"B", "R"} /\ Len(QTyped) >= MinSamples =>
    LET cost == SumCost(QWindow)
        d == IF SumCommits(QWindow) = 0 THEN 1 ELSE SumCommits(QWindow)
        base == BASE[bOut.mode]
        m == IF cost < 60 * d THEN 130
             ELSE IF 60 * d <= cost /\ cost < 100 * d THEN 115
             ELSE IF 100 * d <= cost /\ cost < 200 * d THEN 100
             ELSE 75
        damping == 2 * cost < base * Len(QWindow)
        x == IF damping /\ base * m > base * 100 THEN base * 100 ELSE base * m
    IN  bOut.value = Settled(bOut.mode, x)

\* the windows queried sit on each of the three boundaries
C18_Witness ==
  /\ bpc = "printed"
  /\ bOut.mode = "B"
  /\ Len(QWindow) >= MinSamples
  /\ \/ SumCost(QWindow) * 10 = 6 * SumCommits(QWindow) * 100 /\ bOut.value = 1150
     \/ SumCost(QWindow) = SumCommits(QWindow) * 100 /\ bOut.value = 1000
     \/ SumCost(QWindow) = 2 * SumCommits(QWindow) * 100 /\ bOut.value = 750

\* C19: for Build and Reflect, a window whose average cost is below half of
\* base never gets a budget above base, whatever its tier.
C19_DampingCapsAtBase ==
  bpc = "printed" /\ bOut.mode \in {"B", "R"} /\ QWindow # <<>>
    /\ 2 * SumCost(QWindow) < BASE[bOut.mode] * Len(QWindow)
    => bOut.value <= BASE[bOut.mode]

\* a cheap window in the most generous tier, held at base
C19_Witness ==
  /\ bpc = "printed"
  /\ bOut.mode \in {"B", "R"}
  /\ Len(QWindow) >= MinSamples
  /\ 2 * SumCost(QWindow) < BASE[bOut.mode] * Len(QWindow)
  /\ 4 * SumCost(QWindow) >= BASE[bOut.mode] * Len(QWindow)
  /\ SumCost(QWindow) < 60 * SumCommits(QWindow)
  /\ bOut.value = BASE[bOut.mode]

\* the sessions with every commit count set to 0
NoCommits(sessions) ==
  [k \in 1..Len(sessions) |-> [sessions[k] EXCEPT !.commits = 0]]

\* C20: for Engage with at least 3 records the budget is base x 0.9 if the
\* average cost is below 0.6 x base, base x 1.1 if it is above 0.9 x base,
\* base otherwise, clamped and rounded; the commit counts of the records do
\* not change it.
C20_EngageOnCostAlone ==
  bpc = "printed" /\ bOut.mode = "E" /\ Len(QTyped) >= MinSamples =>
    LET cost == SumCost(QWindow)
        n == Len(QWindow)
        base == BASE["E"]
        m == IF 10 * cost < 6 * base * n THEN 90
             ELSE IF 10 * cost > 9 * base * n THEN 110
             ELSE 100
    IN  /\ bOut.value = Settled("E", base * m)
        /\ bOut.value = compute_budget("E", NoCommits(bOut.sessions))

\* an Engage window with commits and an average cost of 0.6 x base
C20_Witness ==
  /\ bpc = "printed"
  /\ bOut.mode = "E"
  /\ Len(QWindow) >= MinSamples
  /\ SumCommits(QWindow) > 0
  /\ 10 * SumCost(QWindow) = 6 * BASE["E"] * Len(QWindow)
  /\ bOut.value = BASE["E"]

\* the analysis of the log of a finished run; the log does not change
\* while the tuner runs alone
RecAnalysis == analyze(ParseLines(history))
RecDone == pc[1] = "done" /\ historyExists /\ ~ParseRaises(history)

\* the analysis has metrics of the mode
Has(a, m) == a[m].count > 0

\* the metrics of Engage say wasteful: average cost above 1.0, no commit
Wasteful(a) == Has(a, "E") /\ a["E"].avg_cost > 100 /\ a["E"].avg_commits = 0

\* Build costs less per commit than 2.0 and than Reflect
BuildFirst(a) ==
  /\ Has(a, "B")
  /\ a["B"].cost_per_commit < 200
  /\ Has(a, "R") => a["B"].cost_per_commit < a["R"].cost_per_commit

\* C21: the rules of recommend are tried in a fixed order and the first that
\* matches wins: Engage wasteful gives the wastefulness pattern whatever
\* Build costs; otherwise Build cheaper per commit than 2.0 and than Reflect
\* gives BBBRE; every other case gives BBRE.
C21_PriorityOrder ==
  RecDone =>
    LET a == RecAnalysis
    IN  IF Wasteful(a) THEN rec[1].pattern \in {BBBR, BBBRE}
        ELSE IF BuildFirst(a) THEN rec[1].pattern = BBBRE
        ELSE rec[1].pattern = BBRE

\* the Engage sessions among the analysed records
EngageRecords == Typed("E", ParseLines(history))

\* the wastefulness rule has fired
Fired == rec[1].reason = "reduce-E"

\* C22: on a log with Engage sessions the wastefulness rule fires if and
\* only if their average cost is above the literal 1.0 and their commits sum
\* to 0; one Engage commit anywhere in the analysed records keeps it from
\* firing.
C22_WastefulIff ==
  RecDone /\ EngageRecords # <<>> =>
    (Fired <=> /\ SumCost(EngageRecords) > 100 * Len(EngageRecords)
               /\ SumCommits(EngageRecords) = 0)

\* the patterns by their slots
Slots(p, m) == Cardinality({k \in 1..Len(p) : p[k] = m})

ReflectRecords == Typed("R", ParseLines(history))

\* C23: when the wastefulness rule fires, the pattern has a larger Build
\* share than BBRE; it is BBBR, without an Engage slot, exactly when the
\* Reflect sessions average fewer than 1.0 commits, and BBBRE, with one
\* Engage slot, when they average at least 1.0.  No Reflect session counts
\* as an average below 1.0.
C23_WastefulPattern ==
  RecDone /\ Fired =>
    LET p == rec[1].pattern
        below == \/ ReflectRecords = <<>>
                 \/ SumCommits(ReflectRecords) < Len(ReflectRecords)
    IN  /\ Slots(p, "B") * Len(BBRE) > Slots(BBRE, "B") * Len(p)
        /\ Slots(p, "E") = 0 <=> below
        /\ below => p = BBBR
        /\ ~below => p = BBBRE /\ Slots(p, "E") = 1

\* C24: on a log without Engage sessions the wastefulness rule does not fire
\* and Engage keeps its slot in the recommended pattern.
C24_MissingEngageNotWasteful ==
  RecDone /\ EngageRecords = <<>> =>
    ~Fired /\ Slots(rec[1].pattern, "E") > 0

\* C30: every recommendation is one of BBBR, BBBRE and BBRE: non-empty, made
\* of the mode symbols B, R and E, with at least one Build and one Reflect
\* slot, also when sessions of a mode are missing from the log.
C30_PatternInFixedSet ==
  RecDone =>
    LET p == rec[1].pattern
    IN  /\ p \in {BBBR, BBBRE, BBRE}
        /\ Len(p) > 0
        /\ \A k \in 1..Len(p) : p[k] \in {"B", "R", "E"}
        /\ Slots(p, "B") >= 1
        /\ Slots(p, "R") >= 1

\* a recommendation made from a log without Build and without Reflect
\* sessions, where the wastefulness rule has picked the pattern
C30_Witness ==
  /\ RecDone
  /\ ~Has(RecAnalysis, "B")
  /\ ~Has(RecAnalysis, "R")
  /\ Fired
  /\ rec[1].pattern = BBBR

\* the positions of the last WindowSize records of the mode
WindowAt(mode, sessions) ==
  LET at == {k \in 1..Len(sessions) : sessions[k].mode = mode}
  IN  {k \in at : Cardinality({j \in at : j > k}) < WindowSize}

\* the records at these positions, in log order
WindowOf(mode, sessions) ==
  LET at == WindowAt(mode, sessions)
  IN  [i \in 1..Cardinality(at) |->
         sessions[CHOOSE k \in at : Cardinality({j \in at : j <= k}) = i]]

\* C25: the budget of a mode is the budget of the last 10 records of that
\* mode alone: older records of the mode and records of other modes do not
\* change it.
C25_LastTenOnly ==
  bpc = "printed" =>
    bOut.value = compute_budget(bOut.mode, WindowOf(bOut.mode, bOut.sessions))

\* a Build budget of 7.50 from a window of ten sessions with 6.00 and 3
\* commits each, after older Build sessions with 12 commits and with a
\* session of another mode in between
C25_Witness ==
  /\ bpc = "printed"
  /\ bOut.mode = "B"
  /\ Len(Typed("B", bOut.sessions)) > WindowSize
  /\ bOut.sessions[1].mode = "B"
  /\ bOut.sessions[1].commits = 12
  /\ \E k \in 1..Len(bOut.sessions) : bOut.sessions[k].mode # "B"
  /\ bOut.value = 750

\* C26: after two invocations have both applied and finished, rotation.conf
\* holds the text one of them wrote, whole and nothing else, with that
\* invocation's pattern in the PATTERN= line it rewrote.
C26_LastWriteWins ==
  (\A i \in Procs : pc[i] = "done" /\ writes[i] = 1) =>
    \E i \in Procs :
      /\ conf = NewData(i)
      /\ (\E k \in 1..Len(lines[i]) : StartsWithPattern(lines[i][k]))
           => read_current_pattern(conf) = rec[i].pattern

\* C27: once an invocation has written rotation.conf, an invocation on the
\* same history finds its recommendation in the file: changed is false and
\* it ends without applying.
C27_RerunIdempotent ==
  [][writes[1] >= 1 /\ pc[1] = "analyzed"
       => ~rec'[1].changed /\ rec'[1].current = rec'[1].pattern /\ pc'[1] = "done"]_vars

\* the invocation has applied: the lines it read and the lines now in the file
Applied == pc[1] = "done" /\ doApply[1] /\ rec[1].changed
LinesRead == lines[1]
LinesNow == splitlines(conf)

PatternLines(ls) == {k \in 1..Len(ls) : StartsWithPattern(ls[k])}

\* C28: after apply_pattern(p, reason) the file has its pattern field, every
\* pattern field reads PATTERN=p, and the line before it is the annotation
\* of the reason.
C28_AnnotatedPattern ==
  Applied =>
    /\ PatternLines(LinesNow) # {}
    /\ \A k \in PatternLines(LinesNow) :
         /\ LinesNow[k] = <<"PATTERN=">> \o rec[1].pattern
         /\ k > 1
         /\ LinesNow[k - 1] = <<Annotation(rec[1].reason)>>

\* the lines without the PATTERN= lines and the line before each of them
RECURSIVE DropFields(_)
DropFields(ls) ==
  IF ls = <<>> THEN <<>>
  ELSE IF Len(ls) >= 2 /\ StartsWithPattern(ls[2]) /\ ~StartsWithPattern(ls[1])
       THEN DropFields(Tail(Tail(ls)))
  ELSE IF StartsWithPattern(ls[1]) THEN DropFields(Tail(ls))
  ELSE <<ls[1]>> \o DropFields(Tail(ls))

AnnotationLines(ls) ==
  {k \in 1..Len(ls) :
     ls[k] \in {<<Annotation(r)>> : r \in {"reduce-E", "increase-B", "balanced"}}}

\* C29: apply_pattern keeps the lines that do not start with PATTERN=, in
\* their order, keeps the number of PATTERN= lines and adds one annotation
\* line before each of them; after k applies on a file that had no
\* annotation there are k annotation lines per PATTERN= line.
C29_LinesKept ==
  Applied =>
    /\ DropFields(LinesNow) = SelectSeq(LinesRead, LAMBDA l : ~StartsWithPattern(l))
    /\ Cardinality(PatternLines(LinesNow)) = Cardinality(PatternLines(LinesRead))
    /\ Len(LinesNow) = Len(LinesRead) + Cardinality(PatternLines(LinesRead))
    /\ \A k \in PatternLines(LinesNow) :
         k > 1 /\ LinesNow[k - 1] = <<Annotation(rec[1].reason)>>
    /\ Cardinality(AnnotationLines(LinesNow))
         = writes[1] * Cardinality(PatternLines(LinesNow))

\* the second apply on a file with a comment and a PATTERN= line: two
\* annotations, the comment still there
C29_Witness ==
  /\ Applied
  /\ writes[1] = 2
  /\ Cardinality(PatternLines(LinesNow)) = 1
  /\ Cardinality(AnnotationLines(LinesNow)) = 2
  /\ \E k \in 1..Len(LinesNow) : LinesNow[k] \in {<<"# rotation">>, <<"# end">>}

====
